---- MODULE Spec2Model ----
(***************************************************************************)
(* Model of link-grammar's sentence preparation (prepare_to_parse and the  *)
(* functions it drives): expression expansion into per-word disjunct       *)
(* lists, duplicate elimination, setup_connectors and                      *)
(* gword_record_in_connector.                                              *)
(*                                                                         *)
(* Disjuncts live in one pool and are named by their index in it; 0 is the *)
(* null pointer.  A connector chain (Connector.next ... NULL) is a         *)
(* sequence of connector records whose first element is the chain head     *)
(* (d->left or d->right).                                                  *)
(***************************************************************************)
EXTENDS Integers, Sequences, FiniteSets

\* Longest sentence explored.
MaxLen == 3
\* Most disjuncts the pool hands out for one sentence.
MaxDisjuncts == 2

NULL == 0

\* The X-node list of a word: every word has these alternatives.
word_x == <<"x1", "x2">>

\* The connector chains an expression can expand to, each connector given
\* by its length_limit, chain head first.
Expansions ==
  { [left |-> <<>>,     right |-> <<>>],
    [left |-> <<1>>,    right |-> <<>>],
    [left |-> <<>>,     right |-> <<2>>],
    [left |-> <<2>>,    right |-> <<1>>],
    [left |-> <<>>,     right |-> <<1, 2>>],
    [left |-> <<2, 1>>, right |-> <<>>],
    [left |-> <<>>,     right |-> <<1, 1, 1>>] }

VARIABLES
  sent_length,    \* sent->length
  pc,             \* position in prepare_to_parse and its caller
  w,              \* the word index of the running loop (w or i in the code)
  x,              \* index in word_x of the X-node the build loop is at
  d,              \* local d of build_sentence_disjuncts
  dx,             \* local dx of build_sentence_disjuncts
  Disjunct_pool,  \* the disjuncts allocated so far, with their connectors
  word_d,         \* sent->word[w].d
  dc_memblock,    \* sent->dc_memblock[0 .. num_disjuncts-1]
  produced,       \* history: the disjuncts expansion produced for each word
  before,         \* history: each word's list when setup_connectors started
  log             \* history: the stage steps taken, in order

vars == <<sent_length, pc, w, x, d, dx, Disjunct_pool, word_d, dc_memblock,
          produced, before, log>>

Words == 0 .. (sent_length - 1)

----------------------------------------------------------------------------
\* Helpers on sequences.

SeqsUpTo(S, n) == UNION { [1 .. k -> S] : k \in 0 .. n }

RECURSIVE Reverse(_)
Reverse(s) == IF s = <<>> THEN <<>> ELSE Reverse(Tail(s)) \o <<Head(s)>>

RECURSIVE SelectIds(_, _)
SelectIds(s, keep) ==
  IF s = <<>> THEN <<>>
  ELSE IF Head(s) \in keep THEN <<Head(s)>> \o SelectIds(Tail(s), keep)
  ELSE SelectIds(Tail(s), keep)

Range(s) == { s[k] : k \in 1 .. Len(s) }

Occurrences(s, e) == Cardinality({ k \in 1 .. Len(s) : s[k] = e })

\* The disjuncts met following next from h, at most fuel of them.
RECURSIVE list_walk(_, _, _)
list_walk(h, pool, fuel) ==
  IF h = NULL \/ fuel = 0 THEN <<>>
  ELSE <<h>> \o list_walk(pool[h].next, pool, fuel - 1)

\* One more than the pool holds: a cyclic list shows as a repeated element.
list_of(h, pool) == list_walk(h, pool, Len(pool) + 1)

----------------------------------------------------------------------------
\* Allocation.

\* A connector as the zeroing Connector pool hands it out, its length_limit
\* set by the expander.
new_connector(limit) ==
  [length_limit |-> limit, nearest_word |-> 0, farthest_word |-> 0,
   shallow |-> FALSE, originating_gword |-> {}]

new_chain(limits) == [k \in 1 .. Len(limits) |-> new_connector(limits[k])]

\* build_disjuncts_for_exp: the list of fresh disjuncts of one X-node,
\* appended to the pool and linked in order; gs is the X-node's gword set.
build_disjuncts_for_exp(pool, shapes, gs) ==
  LET base == Len(pool)
      n    == Len(shapes)
      fresh == [k \in 1 .. n |->
                  [left  |-> new_chain(shapes[k].left),
                   right |-> new_chain(shapes[k].right),
                   next  |-> IF k = n THEN NULL ELSE base + k + 1,
                   originating_gword |-> {gs}]]
  IN [head |-> IF n = 0 THEN NULL ELSE base + 1, pool |-> pool \o fresh]

\* catenate_disjuncts(d1, d2): d2 appended after the last disjunct of d1.
catenate_disjuncts(pool, d1, d2) ==
  IF d1 = NULL THEN [head |-> d2, pool |-> pool]
  ELSE LET l    == list_of(d1, pool)
           last == l[Len(l)]
       IN [head |-> d1, pool |-> [pool EXCEPT ![last].next = d2]]

\* d = catenate_disjuncts(dx, d) in the X-node loop.
merge_altMut(pool, ndx, nd) == [head |-> ndx, pool |-> pool]
merge_alt(pool, ndx, nd) == catenate_disjuncts(pool, ndx, nd)

----------------------------------------------------------------------------
\* eliminate_duplicate_disjuncts.

same_shape(a, b) ==
  /\ Len(a.left) = Len(b.left)
  /\ Len(a.right) = Len(b.right)
  /\ \A k \in 1 .. Len(a.left) : a.left[k].length_limit = b.left[k].length_limit
  /\ \A k \in 1 .. Len(a.right) : a.right[k].length_limit = b.right[k].length_limit

RECURSIVE relink_in_order(_, _)
relink_in_order(pool, ids) ==
  IF ids = <<>> THEN pool
  ELSE relink_in_order(
         [pool EXCEPT ![Head(ids)].next =
            IF Len(ids) = 1 THEN NULL ELSE ids[2]],
         Tail(ids))

\* The first of each group of equal disjuncts survives and carries the
\* union of the group's gword sets.
eliminate_duplicate_disjuncts(pool, h) ==
  LET l    == list_of(h, pool)
      keep == { l[k] : k \in { k \in 1 .. Len(l) :
                  \A j \in 1 .. (k - 1) : ~ same_shape(pool[l[j]], pool[l[k]]) } }
      kept == SelectIds(l, keep)
      merged == [id \in 1 .. Len(pool) |->
                  IF id \in keep
                  THEN [pool[id] EXCEPT !.originating_gword =
                          UNION { pool[l[j]].originating_gword :
                                    j \in { j \in 1 .. Len(l) :
                                      same_shape(pool[l[j]], pool[id]) } }]
                  ELSE pool[id]]
  IN [head |-> IF kept = <<>> THEN NULL ELSE kept[1],
      pool |-> relink_in_order(merged, kept)]

----------------------------------------------------------------------------
\* set_dist_fields and setup_connectors.

\* i = set_dist_fields(c->next, ...) + delta
nearest_stepMut(ret, delta) == ret
nearest_step(ret, delta) == ret + delta

\* if (delta * farthest_word > w_clamp) farthest_word = w_clamp;
clampMut(farthest_word, delta, w_clamp) == farthest_word
clamp(farthest_word, delta, w_clamp) ==
  IF delta * farthest_word > w_clamp THEN w_clamp ELSE farthest_word

\* int farthest_word = w + (delta * c->length_limit);
farthest_ofMut(wi, delta, limit) == wi + limit
farthest_of(wi, delta, limit) == wi + (delta * limit)

RECURSIVE set_dist_fields(_, _, _, _)
set_dist_fields(c, wi, delta, w_clamp) ==
  IF c = <<>> THEN [ret |-> wi, chain |-> <<>>]
  ELSE LET r == set_dist_fields(Tail(c), wi, delta, w_clamp)
           i == nearest_step(r.ret, delta)
           farthest_word == farthest_of(wi, delta, Head(c).length_limit)
       IN [ret |-> i,
           chain |-> <<[Head(c) EXCEPT
                          !.nearest_word = i,
                          !.farthest_word = clamp(farthest_word, delta, w_clamp)]>>
                     \o r.chain]

\* set_dist_fields(d->left, w, -1, 0) < 0
left_skipMut(lret) == lret < -1
left_skip(lret) == lret < 0

\* set_dist_fields(d->right, w, 1, (int)(sent->length-1)) >= (int) sent->length
right_skipMut(rret, len) == rret > len
right_skip(rret, len) == rret >= len

\* if (NULL != d->left) d->left->shallow = true; (and the same for right)
mark_shallowMut(c) == [k \in 1 .. Len(c) |-> [c[k] EXCEPT !.shallow = TRUE]]
mark_shallow(c) == IF c = <<>> THEN c ELSE [c EXCEPT ![1].shallow = TRUE]

\* d->next = head;
relinkMut(dj, head) == dj
relink(dj, head) == [dj EXCEPT !.next = head]

\* The loop over one word's list: d is the disjunct at hand, head the list
\* built so far.  The right chain is only visited when the left one fits.
RECURSIVE setup_word(_, _, _, _, _)
setup_word(pool, nd, head, wi, len) ==
  IF nd = NULL THEN [head |-> head, pool |-> pool]
  ELSE LET xd == pool[nd].next
           l  == set_dist_fields(pool[nd].left, wi, -1, 0)
           r  == set_dist_fields(pool[nd].right, wi, 1, len - 1)
       IN IF left_skip(l.ret)
          THEN setup_word([pool EXCEPT ![nd].left = l.chain], xd, head, wi, len)
          ELSE IF right_skip(r.ret, len)
          THEN setup_word([pool EXCEPT ![nd].left = l.chain,
                                       ![nd].right = r.chain],
                          xd, head, wi, len)
          ELSE setup_word(
                 [pool EXCEPT ![nd] =
                    relink([@ EXCEPT !.left = mark_shallow(l.chain),
                                     !.right = mark_shallow(r.chain)], head)],
                 xd, nd, wi, len)

----------------------------------------------------------------------------
\* gword_record_in_connector.

tag_chain(c, gs) == [k \in 1 .. Len(c) |-> [c[k] EXCEPT !.originating_gword = gs]]

record_gwordMut(dj) ==
  [dj EXCEPT !.right = tag_chain(dj.right, dj.originating_gword)]
record_gword(dj) ==
  [dj EXCEPT !.right = tag_chain(dj.right, dj.originating_gword),
             !.left  = tag_chain(dj.left, dj.originating_gword)]

----------------------------------------------------------------------------
\* Control flow of prepare_to_parse.

\* What follows build_sentence_disjuncts.
after_buildMut == "setup"
after_build == "dedup"

Init ==
  /\ sent_length \in 1 .. MaxLen
  /\ pc = "expand"
  /\ w = 0
  /\ x = 1
  /\ d = NULL
  /\ dx = NULL
  /\ Disjunct_pool = <<>>
  /\ word_d = [k \in Words |-> NULL]
  /\ dc_memblock = <<>>
  /\ produced = [k \in Words |-> {}]
  /\ before = [k \in Words |-> <<>>]
  /\ log = <<>>

\* build_sentence_disjuncts, X-node loop body, first statement.
ExpandAlt ==
  /\ pc = "expand"
  /\ x <= Len(word_x)
  /\ \E shapes \in SeqsUpTo(Expansions, MaxDisjuncts - Len(Disjunct_pool)) :
       LET b == build_disjuncts_for_exp(Disjunct_pool, shapes, <<w, word_x[x]>>)
       IN /\ Disjunct_pool' = b.pool
          /\ dx' = b.head
          /\ produced' = [produced EXCEPT ![w] =
                            @ \cup (Len(Disjunct_pool) + 1 .. Len(b.pool))]
  /\ pc' = "catenate"
  /\ log' = Append(log, <<"expand", w>>)
  /\ UNCHANGED <<sent_length, w, x, d, word_d, dc_memblock, before>>

\* build_sentence_disjuncts, X-node loop body, second statement.
CatenateAlt ==
  /\ pc = "catenate"
  /\ LET m == merge_alt(Disjunct_pool, dx, d)
     IN /\ d' = m.head
        /\ Disjunct_pool' = m.pool
  /\ x' = x + 1
  /\ pc' = "expand"
  /\ log' = Append(log, <<"merge", w>>)
  /\ UNCHANGED <<sent_length, w, dx, word_d, dc_memblock, produced, before>>

\* build_sentence_disjuncts, end of the X-node loop: sent->word[w].d = d.
StoreWord ==
  /\ pc = "expand"
  /\ x > Len(word_x)
  /\ word_d' = [word_d EXCEPT ![w] = d]
  /\ d' = NULL
  /\ x' = 1
  /\ IF w + 1 < sent_length
     THEN /\ w' = w + 1
          /\ pc' = "expand"
     ELSE /\ w' = 0
          /\ pc' = after_build
  /\ UNCHANGED <<sent_length, dx, Disjunct_pool, dc_memblock, produced,
                 before, log>>

\* prepare_to_parse: one round of the duplicate elimination loop.
EliminateWord ==
  /\ pc = "dedup"
  /\ LET e == eliminate_duplicate_disjuncts(Disjunct_pool, word_d[w])
     IN /\ word_d' = [word_d EXCEPT ![w] = e.head]
        /\ Disjunct_pool' = e.pool
  /\ IF w + 1 < sent_length
     THEN /\ w' = w + 1
          /\ pc' = "dedup"
     ELSE /\ w' = 0
          /\ pc' = "setup"
  /\ log' = Append(log, <<"dedup", w>>)
  /\ UNCHANGED <<sent_length, x, d, dx, dc_memblock, produced, before>>

\* setup_connectors: one round of the loop over the words.
SetupWord ==
  /\ pc = "setup"
  /\ LET s == setup_word(Disjunct_pool, word_d[w], NULL, w, sent_length)
     IN /\ word_d' = [word_d EXCEPT ![w] = s.head]
        /\ Disjunct_pool' = s.pool
  /\ before' = IF w = 0
               THEN [k \in Words |-> list_of(word_d[k], Disjunct_pool)]
               ELSE before
  /\ IF w + 1 < sent_length
     THEN /\ w' = w + 1
          /\ pc' = "setup"
     ELSE /\ w' = 0
          /\ pc' = "prepared"
  /\ log' = Append(log, <<"setup", w>>)
  /\ UNCHANGED <<sent_length, x, d, dx, dc_memblock, produced>>

RECURSIVE all_lists(_, _, _)
all_lists(wd, pool, k) ==
  IF k < 0 THEN <<>>
  ELSE all_lists(wd, pool, k - 1) \o list_of(wd[k], pool)

\* The caller gathers the disjuncts left in the word lists into dc_memblock.
PackSentence ==
  /\ pc = "prepared"
  /\ dc_memblock' = all_lists(word_d, Disjunct_pool, sent_length - 1)
  /\ pc' = "packed"
  /\ UNCHANGED <<sent_length, w, x, d, dx, Disjunct_pool, word_d, produced,
                 before, log>>

\* gword_record_in_connector, called on the packed sentence.
GwordRecordInConnector ==
  /\ pc = "packed"
  /\ Disjunct_pool' = [id \in 1 .. Len(Disjunct_pool) |->
                         IF id \in Range(dc_memblock)
                         THEN record_gword(Disjunct_pool[id])
                         ELSE Disjunct_pool[id]]
  /\ pc' = "tagged"
  /\ log' = Append(log, <<"tag", 0>>)
  /\ UNCHANGED <<sent_length, w, x, d, dx, word_d, dc_memblock, produced,
                 before>>

Next ==
  \/ ExpandAlt
  \/ CatenateAlt
  \/ StoreWord
  \/ EliminateWord
  \/ SetupWord
  \/ PackSentence
  \/ GwordRecordInConnector

Spec == Init /\ [][Next]_vars

----------------------------------------------------------------------------
\* Vocabulary of the properties.

SetupDone == pc \in {"prepared", "packed", "tagged"}

BuildDone == pc = "dedup" /\ w = 0

WordList(k) == list_of(word_d[k], Disjunct_pool)

KeptIds(k) == Range(WordList(k))

Fits(id, k) ==
  /\ Len(Disjunct_pool[id].left) <= k
  /\ Len(Disjunct_pool[id].right) <= sent_length - 1 - k

Abs(n) == IF n < 0 THEN -n ELSE n

Max(a, b) == IF a > b THEN a ELSE b

Min(a, b) == IF a < b THEN a ELSE b

\* C1: after setup_connectors, a disjunct that was in word k's list before
\* the call is still in it iff its left chain has at most k connectors and
\* its right chain at most L-1-k.
C1_KeptIffFits ==
  SetupDone =>
    \A k \in Words : \A id \in Range(before[k]) :
      (id \in KeptIds(k)) <=> Fits(id, k)

\* A sentence where one disjunct with connectors was kept and another, with
\* a left chain on word 0, was dropped.
C1_Witness ==
  /\ SetupDone
  /\ \E id \in Range(before[0]) :
       Disjunct_pool[id].left # <<>> /\ id \notin KeptIds(0)
  /\ \E k \in Words : \E id \in KeptIds(k) :
       Disjunct_pool[id].left # <<>> \/ Disjunct_pool[id].right # <<>>

\* C2: after setup_connectors every connector of every remaining disjunct
\* of word k has nearest_word and farthest_word in [0, L) and farthest_word
\* at most length_limit words away from k.
C2_InRange ==
  SetupDone =>
    \A k \in Words : \A id \in KeptIds(k) :
      \A c \in Range(Disjunct_pool[id].left) \cup Range(Disjunct_pool[id].right) :
        /\ 0 <= c.nearest_word /\ c.nearest_word < sent_length
        /\ 0 <= c.farthest_word /\ c.farthest_word < sent_length
        /\ Abs(c.farthest_word - k) <= c.length_limit

\* A kept right connector whose length_limit reaches past the last word.
C2_Witness ==
  /\ SetupDone
  /\ \E k \in Words : \E id \in KeptIds(k) :
       \E c \in Range(Disjunct_pool[id].right) :
         k + c.length_limit > sent_length - 1

\* C3 as claimed: every connector of a kept disjunct has a non-empty window
\* from nearest_word to farthest_word.
C3_WindowNonEmpty ==
  SetupDone =>
    \A k \in Words : \A id \in KeptIds(k) :
      /\ \A c \in Range(Disjunct_pool[id].right) :
           c.nearest_word <= c.farthest_word
      /\ \A c \in Range(Disjunct_pool[id].left) :
           c.farthest_word <= c.nearest_word

\* The number of connectors from position p to the end of chain c.
Depth(c, p) == Len(c) - p + 1

\* C3 amended: every connector of a kept disjunct has its nearest_word in
\* the sentence, on its own side of the word, and its window is non-empty
\* exactly when its length_limit is at least its depth in the chain.
C3_WindowIffLimit ==
  SetupDone =>
    \A k \in Words : \A id \in KeptIds(k) :
      LET r == Disjunct_pool[id].right
          l == Disjunct_pool[id].left
      IN /\ \A p \in 1 .. Len(r) :
              /\ k < r[p].nearest_word /\ r[p].nearest_word < sent_length
              /\ (r[p].nearest_word <= r[p].farthest_word)
                   <=> (r[p].length_limit >= Depth(r, p))
         /\ \A p \in 1 .. Len(l) :
              /\ 0 <= l[p].nearest_word /\ l[p].nearest_word < k
              /\ (l[p].farthest_word <= l[p].nearest_word)
                   <=> (l[p].length_limit >= Depth(l, p))

\* A kept disjunct with a connector whose length_limit is below its depth,
\* and one whose length_limit reaches its depth.
C3_Witness ==
  /\ SetupDone
  /\ \E k \in Words : \E id \in KeptIds(k) :
       \E p \in 1 .. Len(Disjunct_pool[id].right) :
         Disjunct_pool[id].right[p].length_limit
           < Depth(Disjunct_pool[id].right, p)
  /\ \E k \in Words : \E id \in KeptIds(k) :
       \E p \in 1 .. Len(Disjunct_pool[id].left) :
         Disjunct_pool[id].left[p].length_limit
           >= Depth(Disjunct_pool[id].left, p)

\* C4: after setup_connectors, on each chain of each remaining disjunct the
\* shallow flag is set on the first connector and on no other.
C4_ShallowHeads ==
  SetupDone =>
    \A k \in Words : \A id \in KeptIds(k) :
      LET r == Disjunct_pool[id].right
          l == Disjunct_pool[id].left
      IN /\ \A p \in 1 .. Len(r) : r[p].shallow <=> (p = 1)
         /\ \A p \in 1 .. Len(l) : l[p].shallow <=> (p = 1)

\* A kept disjunct with connectors on both sides, and one with a chain of
\* two.
C4_Witness ==
  /\ SetupDone
  /\ \E k \in Words : \E id \in KeptIds(k) :
       /\ Disjunct_pool[id].left # <<>>
       /\ Disjunct_pool[id].right # <<>>
  /\ \E k \in Words : \E id \in KeptIds(k) :
       Len(Disjunct_pool[id].right) >= 2

StageRank(e) ==
  CASE e[1] = "expand" -> 1
    [] e[1] = "merge"  -> 2
    [] e[1] = "dedup"  -> 3
    [] e[1] = "setup"  -> 4
    [] e[1] = "tag"    -> 5

Tagged(id) ==
  \A c \in Range(Disjunct_pool[id].left) \cup Range(Disjunct_pool[id].right) :
    c.originating_gword = Disjunct_pool[id].originating_gword

\* C5 as claimed: the stages run one after the other over the whole
\* sentence (expansion, merging, duplicate elimination, reachability setup,
\* provenance tagging), and the tagging is done when the preparation
\* returns.
C5_StagesInSequence ==
  /\ \A i \in 1 .. Len(log) : \A j \in i .. Len(log) :
       StageRank(log[i]) <= StageRank(log[j])
  /\ pc = "prepared" => \A k \in Words : \A id \in KeptIds(k) : Tagged(id)

Count(stage, k) ==
  Cardinality({ i \in 1 .. Len(log) : log[i] = <<stage, k>> })

Has(stage) == \E i \in 1 .. Len(log) : log[i][1] = stage

BuildRank(e) == IF e[1] \in {"expand", "merge"} THEN 2 ELSE StageRank(e)

\* C5 amended: each alternative is expanded and at once merged, word by
\* word; every word is built before any is deduplicated; every word is
\* deduplicated before setup_connectors touches any; prepare_to_parse
\* returns with no connector tagged, the tagging being a later, separate
\* call.
C5_StagesAsCoded ==
  /\ \A j \in 2 .. Len(log) : BuildRank(log[j - 1]) <= BuildRank(log[j])
  /\ \A j \in 1 .. Len(log) :
       log[j][1] = "merge" => (j > 1 /\ log[j - 1] = <<"expand", log[j][2]>>)
  /\ Has("dedup") =>
       \A k \in Words : Count("expand", k) = Len(word_x)
                        /\ Count("merge", k) = Len(word_x)
  /\ Has("setup") => \A k \in Words : Count("dedup", k) = 1
  /\ Has("tag") => (pc = "tagged" /\ \A k \in Words : Count("setup", k) = 1)
  /\ pc = "prepared" =>
       \A k \in Words : \A id \in KeptIds(k) :
         \A c \in Range(Disjunct_pool[id].left)
                    \cup Range(Disjunct_pool[id].right) :
           c.originating_gword = {}

\* A sentence of several words, prepared and then tagged, with a kept
\* disjunct that has a connector.
C5_Witness ==
  /\ pc = "tagged"
  /\ sent_length >= 2
  /\ \E k \in Words : \E id \in KeptIds(k) : Disjunct_pool[id].right # <<>>

Untag(c) == [k \in 1 .. Len(c) |-> [c[k] EXCEPT !.originating_gword = {}]]

Untagged(dj) == [dj EXCEPT !.left = Untag(dj.left), !.right = Untag(dj.right)]

\* C6: a call of gword_record_in_connector leaves every connector of every
\* listed disjunct with its disjunct's originating_gword, leaves the word
\* lists as they were and changes nothing but the connectors'
\* originating_gword.
C6_PurePropagation ==
  [][ (pc = "packed" /\ pc' = "tagged") =>
        /\ word_d' = word_d
        /\ Len(Disjunct_pool') = Len(Disjunct_pool)
        /\ \A id \in 1 .. Len(Disjunct_pool) :
             Untagged(Disjunct_pool'[id]) = Untagged(Disjunct_pool[id])
        /\ \A k \in Words :
             /\ list_of(word_d'[k], Disjunct_pool') = WordList(k)
             /\ \A id \in KeptIds(k) :
                  \A c \in Range(Disjunct_pool'[id].left)
                             \cup Range(Disjunct_pool'[id].right) :
                    c.originating_gword = Disjunct_pool'[id].originating_gword
    ]_vars

\* A tagged sentence with a kept disjunct that has connectors on both
\* sides.
C6_Witness ==
  /\ pc = "tagged"
  /\ \E k \in Words : \E id \in KeptIds(k) :
       /\ Disjunct_pool[id].left # <<>>
       /\ Disjunct_pool[id].right # <<>>
       /\ Tagged(id)

\* C7: after build_sentence_disjuncts every word's list holds each disjunct
\* expanded from that word's alternatives exactly once, and nothing else.
C7_MergeExact ==
  BuildDone =>
    \A k \in Words :
      /\ KeptIds(k) = produced[k]
      /\ \A id \in produced[k] : Occurrences(WordList(k), id) = 1

\* A word whose list holds disjuncts of both of its alternatives.
C7_Witness ==
  /\ BuildDone
  /\ \E k \in Words : \E a, b \in KeptIds(k) :
       /\ Disjunct_pool[a].originating_gword = {<<k, word_x[1]>>}
       /\ Disjunct_pool[b].originating_gword = {<<k, word_x[2]>>}

\* C8: on a kept disjunct of word k each connector's nearest_word is that
\* of the next connector shifted by one word, the last connector's is k-1
\* (left) or k+1 (right), and so the head's is k-n or k+n.
C8_NearestChain ==
  SetupDone =>
    \A k \in Words : \A id \in KeptIds(k) :
      LET r == Disjunct_pool[id].right
          l == Disjunct_pool[id].left
      IN /\ \A p \in 1 .. Len(r) :
              r[p].nearest_word =
                IF p = Len(r) THEN k + 1 ELSE r[p + 1].nearest_word + 1
         /\ \A p \in 1 .. Len(l) :
              l[p].nearest_word =
                IF p = Len(l) THEN k - 1 ELSE l[p + 1].nearest_word - 1
         /\ r # <<>> => r[1].nearest_word = k + Len(r)
         /\ l # <<>> => l[1].nearest_word = k - Len(l)

\* Kept disjuncts with a left chain of two and with a right chain of two.
C8_Witness ==
  /\ SetupDone
  /\ \E k \in Words : \E id \in KeptIds(k) : Len(Disjunct_pool[id].left) >= 2
  /\ \E k \in Words : \E id \in KeptIds(k) : Len(Disjunct_pool[id].right) >= 2

\* C9: on a kept disjunct of word k, farthest_word is max(0, k -
\* length_limit) for a left connector and min(L-1, k + length_limit) for a
\* right one.
C9_FarthestClamped ==
  SetupDone =>
    \A k \in Words : \A id \in KeptIds(k) :
      /\ \A c \in Range(Disjunct_pool[id].left) :
           c.farthest_word = Max(0, k - c.length_limit)
      /\ \A c \in Range(Disjunct_pool[id].right) :
           c.farthest_word = Min(sent_length - 1, k + c.length_limit)

\* A kept left connector whose limit reaches before word 0, and a kept
\* right connector whose limit stays inside the sentence.
C9_Witness ==
  /\ SetupDone
  /\ \E k \in Words : \E id \in KeptIds(k) :
       \E c \in Range(Disjunct_pool[id].left) : k - c.length_limit < 0
  /\ \E k \in Words : \E id \in KeptIds(k) :
       \E c \in Range(Disjunct_pool[id].right) :
         k + c.length_limit < sent_length - 1

\* C10: after setup_connectors every word's list is null-terminated and
\* acyclic, holds each kept disjunct of that word once and no other, in the
\* reverse of their order before the call; it is empty when all were
\* dropped.
C10_RelinkedReversed ==
  SetupDone =>
    \A k \in Words :
      LET kept == { id \in Range(before[k]) : Fits(id, k) }
      IN /\ WordList(k) = Reverse(SelectIds(before[k], kept))
         /\ Len(WordList(k)) <= Len(Disjunct_pool)
         /\ \A id \in KeptIds(k) : Occurrences(WordList(k), id) = 1
         /\ KeptIds(k) \subseteq produced[k]
         /\ (kept = {}) => word_d[k] = NULL

\* A word that had two disjuncts and keeps both, the later one now first.
C10_Witness ==
  /\ SetupDone
  /\ \E k \in Words :
       /\ Len(before[k]) >= 2
       /\ Len(WordList(k)) >= 2
       /\ WordList(k)[1] = before[k][2]

====
